---- MODULE Spec2Model ----
(***************************************************************************)
(* Personal expense tracker (project.py): one SQLite table "expenses",     *)
(* append-only inserts, full scans, a GROUP BY aggregation, the windowed   *)
(* report fold, the bar-chart writer and the argparse command surface.     *)
(*                                                                         *)
(* Amounts are binary floating-point numbers.  They are modelled by        *)
(* integers rounded to a MantBits-bit significand (round-half-even), so    *)
(* that additions round as IEEE-754 additions do.  Date texts are tuples   *)
(* of one-character strings, parsed position by position.                  *)
(***************************************************************************)
EXTENDS Integers, Sequences, FiniteSets, TLC

\* Most rows the table holds in the model.
MaxRows == 3
\* Width of the significand of the modelled floating-point format.
MantBits == 3

None == <<"None">>

----------------------------------------------------------------------------
(* Floating-point arithmetic on amounts                                    *)

RECURSIVE Pow2(_)
Pow2(n) == IF n = 0 THEN 1 ELSE 2 * Pow2(n - 1)

Abs(x) == IF x < 0 THEN -x ELSE x

\* Round a magnitude whose unit in the last place is 2^e.
RECURSIVE RoundMag(_, _)
RoundMag(x, e) ==
    IF x \div Pow2(e) >= Pow2(MantBits)
    THEN RoundMag(x, e + 1)
    ELSE LET q == x \div Pow2(e)
             r == x % Pow2(e)
             half == IF e = 0 THEN 0 ELSE Pow2(e - 1)
             up == r > half \/ (r = half /\ e > 0 /\ q % 2 = 1)
         IN  (IF up THEN q + 1 ELSE q) * Pow2(e)

\* The representable number nearest to x, ties to even.
Fl(x) == IF x < 0 THEN -RoundMag(-x, 0) ELSE RoundMag(x, 0)

\* Fl, tabulated once over the magnitudes sums of MaxRows amounts reach.
MaxMag == 4 * MaxRows * Pow2(MantBits)
Rounded == [x \in -MaxMag..MaxMag |-> Fl(x)]

FAdd(a, b) == Rounded[a + b]
FSub(a, b) == Rounded[a - b]

\* Left-to-right accumulation with one rounding per addition.
RECURSIVE NaiveSum(_)
NaiveSum(s) ==
    IF s = <<>> THEN 0
    ELSE FAdd(NaiveSum(SubSeq(s, 1, Len(s) - 1)), s[Len(s)])

\* Kahan-Babuska-Neumaier accumulation: <<sum, compensation>> after s.
RECURSIVE CompensatedAcc(_)
CompensatedAcc(s) ==
    IF s = <<>> THEN <<0, 0>>
    ELSE LET acc == CompensatedAcc(SubSeq(s, 1, Len(s) - 1))
             hi == acc[1]
             x == s[Len(s)]
             t == FAdd(hi, x)
             c == IF Abs(hi) >= Abs(x)
                  THEN FAdd(FSub(hi, t), x)
                  ELSE FAdd(FSub(x, t), hi)
         IN  <<t, FAdd(acc[2], c)>>

CompensatedSum(s) == LET acc == CompensatedAcc(s) IN FAdd(acc[1], acc[2])

----------------------------------------------------------------------------
(* Calendar dates                                                          *)

DigitVal(c) ==
    CASE c = "0" -> 0 [] c = "1" -> 1 [] c = "2" -> 2 [] c = "3" -> 3
      [] c = "4" -> 4 [] c = "5" -> 5 [] c = "6" -> 6 [] c = "7" -> 7
      [] c = "8" -> 8 [] c = "9" -> 9 [] OTHER -> -1

DigitChar(n) ==
    CASE n = 0 -> "0" [] n = 1 -> "1" [] n = 2 -> "2" [] n = 3 -> "3"
      [] n = 4 -> "4" [] n = 5 -> "5" [] n = 6 -> "6" [] n = 7 -> "7"
      [] n = 8 -> "8" [] n = 9 -> "9"

IsLeap(y) == y % 4 = 0 /\ (y % 100 # 0 \/ y % 400 = 0)

DaysInMonth(y, m) ==
    IF m = 2 THEN (IF IsLeap(y) THEN 29 ELSE 28)
    ELSE IF m \in {4, 6, 9, 11} THEN 30 ELSE 31

DaysBeforeYear(y) ==
    (y - 1) * 365 + (y - 1) \div 4 - (y - 1) \div 100 + (y - 1) \div 400

RECURSIVE DaysBeforeMonth(_, _)
DaysBeforeMonth(y, m) ==
    IF m = 1 THEN 0 ELSE DaysBeforeMonth(y, m - 1) + DaysInMonth(y, m - 1)

\* The proleptic Gregorian ordinal of a date; dates compare by it.
Ymd2Ord(y, m, d) == DaysBeforeYear(y) + DaysBeforeMonth(y, m) + d

\* date.fromisoformat on a YYYY-MM-DD text: the ordinal, or -1 for ValueError.
ParseDate(s) ==
    IF /\ Len(s) = 10
       /\ s[5] = "-" /\ s[8] = "-"
       /\ \A i \in {1, 2, 3, 4, 6, 7, 9, 10} : DigitVal(s[i]) >= 0
    THEN LET y == 1000 * DigitVal(s[1]) + 100 * DigitVal(s[2])
                  + 10 * DigitVal(s[3]) + DigitVal(s[4])
             m == 10 * DigitVal(s[6]) + DigitVal(s[7])
             d == 10 * DigitVal(s[9]) + DigitVal(s[10])
         IN  IF y >= 1 /\ m >= 1 /\ m <= 12 /\ d >= 1 /\ d <= DaysInMonth(y, m)
             THEN Ymd2Ord(y, m, d)
             ELSE -1
    ELSE -1

RECURSIVE YearOf(_, _)
YearOf(n, y) == IF n <= DaysBeforeYear(y + 1) THEN y ELSE YearOf(n, y + 1)

RECURSIVE MonthOf(_, _, _)
MonthOf(n, y, m) ==
    IF n <= DaysBeforeMonth(y, m) + DaysInMonth(y, m) THEN m
    ELSE MonthOf(n, y, m + 1)

\* date.isoformat: the YYYY-MM-DD text of an ordinal.
FormatDate(n) ==
    LET y == YearOf(n, n \div 366 + 1)
        k == n - DaysBeforeYear(y)
        m == MonthOf(k, y, 1)
        d == k - DaysBeforeMonth(y, m)
    IN  << DigitChar(y \div 1000), DigitChar((y \div 100) % 10),
           DigitChar((y \div 10) % 10), DigitChar(y % 10), "-",
           DigitChar(m \div 10), DigitChar(m % 10), "-",
           DigitChar(d \div 10), DigitChar(d % 10) >>

----------------------------------------------------------------------------
(* Inputs                                                                  *)

T_30 == <<"2", "0", "2", "5", "-", "0", "7", "-", "0", "1">>
T_7 == <<"2", "0", "2", "5", "-", "0", "7", "-", "2", "4">>
T0 == <<"2", "0", "2", "5", "-", "0", "7", "-", "3", "1">>
T1 == <<"2", "0", "2", "5", "-", "0", "8", "-", "0", "1">>
\* A text date.fromisoformat rejects (one-digit month and day).
Malformed == <<"2", "0", "2", "5", "-", "7", "-", "1">>

\* The dates written with --date / on_date: 30 and 7 days before the earlier
\* clock reading, that reading itself, and the later one.
DateTexts == {T_30, T_7, T0, T1, Malformed}

\* The readings date.today() gives: two consecutive days.
Todays == {ParseDate(T0), ParseDate(T1)}

\* The conversions, tabulated once over the texts and dates that occur.
ParsedDates == [s \in DateTexts |-> ParseDate(s)]
FormattedDates ==
    [n \in {ParsedDates[s] : s \in DateTexts} \ {-1} |-> FormatDate(n)]

fromisoformat(s) == ParsedDates[s]
isoformat(n) == FormattedDates[n]

\* One amount that adds exactly and one at which additions start to round.
Amounts == {1, Pow2(MantBits)}
Categories == {"a", "b"}
\* The amount and category of the expenses that are added: both amounts in
\* one category, the small one in the other.
Purchases == (Amounts \X {"a"}) \cup ({1} \X {"b"})
\* What add_expense is called with: every purchase on every well-formed date
\* and with the date left out, one purchase with the malformed date.
AddArgs ==
    {<<p[1], p[2], t>> : p \in Purchases, t \in (DateTexts \ {Malformed}) \cup {None}}
    \cup {<<1, "a", Malformed>>}
Periods == {"daily", "weekly", "monthly", "all"}

\* sum() of the interpreter: plain accumulation, or compensated (3.12 on).
PySums == {"plain", "compensated"}
\* SUM() of the SQLite library: plain accumulation, or Kahan-Babuska.
SqlSums == {"plain", "compensated"}

FloatSum(s, how) == IF how = "plain" THEN NaiveSum(s) ELSE CompensatedSum(s)

----------------------------------------------------------------------------
(* State                                                                   *)

VARIABLES
    db,      \* the database file: schema, rows of expenses, sqlite_sequence
    before,  \* db as it was when the last operation started
    op,      \* the last operation, its arguments and the clock reading it made
    ret,     \* what it returned or raised
    io       \* what it printed and which files it wrote

vars == <<db, before, op, ret, io>>

EmptyDb == [sqlite_master |-> <<>>, rows |-> <<>>, seq |-> 0]
NoIo == [stdout |-> <<>>, written |-> <<>>]

Return(v) == [exc |-> "", val |-> v]
Raise(e) == [exc |-> e, val |-> None]

HasTable(d) ==
    \E i \in 1..Len(d.sqlite_master) : d.sqlite_master[i] = "expenses"

\* Faulty variant: the table is dropped and created again.
initialize_db_recreate(d) ==
    [d EXCEPT !.sqlite_master = <<"expenses">>, !.rows = <<>>]

\* CREATE TABLE IF NOT EXISTS expenses (...)
initialize_db(d) ==
    IF HasTable(d) THEN d
    ELSE [d EXCEPT !.sqlite_master = Append(@, "expenses")]

MaxOf(S) == CHOOSE x \in S : \A y \in S : y <= x
MinOf(S) == CHOOSE x \in S : \A y \in S : x <= y

\* Faulty variant: the last identifier is handed out again.
NextRowid_reused(d) ==
    MaxOf({d.seq} \cup {d.rows[i].id : i \in 1..Len(d.rows)})

\* INTEGER PRIMARY KEY AUTOINCREMENT: one more than the largest rowid the
\* table ever held.
NextRowid(d) ==
    MaxOf({d.seq} \cup {d.rows[i].id : i \in 1..Len(d.rows)}) + 1

\* Faulty variant: INSERT OR REPLACE on the newest row.
Insert_replacing(d, amount, category, on_date) ==
    LET id == NextRowid(d)
        kept == SubSeq(d.rows, 1, Len(d.rows) - 1)
    IN  [d EXCEPT !.rows = Append(kept, [id |-> id, amount |-> amount,
                                         category |-> category, date |-> on_date]),
                  !.seq = id]

\* INSERT INTO expenses (amount, category, date) VALUES (?, ?, ?)
Insert(d, amount, category, on_date) ==
    LET id == NextRowid(d)
    IN  [d EXCEPT !.rows = Append(@, [id |-> id, amount |-> amount,
                                      category |-> category, date |-> on_date]),
                  !.seq = id]

Entry(amount, category, on_date) ==
    [amount |-> amount, category |-> category, date |-> on_date]

add_expense(d, amount, category, on_date, today) ==
    LET date == IF on_date = None THEN isoformat(today) ELSE on_date
    IN  [db |-> Insert(initialize_db(d), amount, category, date),
         ret |-> Return(Entry(amount, category, date))]

\* SELECT amount, category, date FROM expenses
Select(d) ==
    [i \in 1..Len(d.rows) |->
        Entry(d.rows[i].amount, d.rows[i].category, d.rows[i].date)]

get_all_expenses(d) ==
    LET d1 == initialize_db(d) IN [db |-> d1, ret |-> Return(Select(d1))]

AmountsOf(es) == [i \in 1..Len(es) |-> es[i].amount]

\* Faulty variant: every category gets the sum over the whole table.
get_total_by_category_ungrouped(d, sqlsum) ==
    LET d1 == initialize_db(d)
        groups == {d1.rows[i].category : i \in 1..Len(d1.rows)}
    IN  [db |-> d1,
         ret |-> Return([c \in groups |-> FloatSum(AmountsOf(d1.rows), sqlsum)])]

\* SELECT category, SUM(amount) FROM expenses GROUP BY category
get_total_by_category(d, sqlsum) ==
    LET d1 == initialize_db(d)
        groups == {d1.rows[i].category : i \in 1..Len(d1.rows)}
        group(c) == SelectSeq(d1.rows, LAMBDA r : r.category = c)
    IN  [db |-> d1,
         ret |-> Return([c \in groups |-> FloatSum(AmountsOf(group(c)), sqlsum)])]

----------------------------------------------------------------------------
(* Report                                                                  *)

\* timedelta(days=7) and timedelta(days=30)
WeekDays == 7
MonthDays == 30

Cutoff(period, today) ==
    CASE period = "daily" -> today
      [] period = "weekly" -> today - WeekDays
      [] period = "monthly" -> today - MonthDays

Parses(es) == \A i \in 1..Len(es) : fromisoformat(es[i].date) >= 0

\* Faulty variant: the cutoff day itself is left out.
Window_strict(es, cutoff) == SelectSeq(es, LAMBDA e : fromisoformat(e.date) > cutoff)

\* [e for e in expenses if date.fromisoformat(e["date"]) >= cutoff]
Window(es, cutoff) == SelectSeq(es, LAMBDA e : fromisoformat(e.date) >= cutoff)

\* by_cat[c] = by_cat.get(c, 0) + amount, one expense after the other
\* Faulty variant: the entry of a category is overwritten, not added to.
ByCatPut_overwriting(m, e) ==
    [c \in DOMAIN m \cup {e.category} |->
        IF c = e.category THEN e.amount ELSE m[c]]

ByCatPut(m, e) ==
    LET old == IF e.category \in DOMAIN m THEN m[e.category] ELSE 0
    IN  [c \in DOMAIN m \cup {e.category} |->
            IF c = e.category THEN FAdd(old, e.amount) ELSE m[c]]

RECURSIVE ByCat(_)
ByCat(es) ==
    IF es = <<>> THEN [c \in {} |-> 0]
    ELSE ByCatPut(ByCat(SubSeq(es, 1, Len(es) - 1)), es[Len(es)])

\* Faulty variant: the total leaves out the first expense.
Summary_short(period, es, pysum) ==
    LET dates == {fromisoformat(es[i].date) : i \in 1..Len(es)}
    IN  [period |-> period,
         total |-> FloatSum(AmountsOf(SubSeq(es, 2, Len(es))), pysum),
         by_category |-> ByCat(es),
         first_date |-> IF dates = {} THEN None ELSE isoformat(MinOf(dates)),
         last_date |-> IF dates = {} THEN None ELSE isoformat(MaxOf(dates))]

Summary(period, es, pysum) ==
    LET dates == {fromisoformat(es[i].date) : i \in 1..Len(es)}
    IN  [period |-> period,
         total |-> FloatSum(AmountsOf(es), pysum),
         by_category |-> ByCat(es),
         first_date |-> IF dates = {} THEN None ELSE isoformat(MinOf(dates)),
         last_date |-> IF dates = {} THEN None ELSE isoformat(MaxOf(dates))]

\* Faulty variant: records whose date does not parse are skipped silently.
generate_report_lenient(d, period, today, pysum) ==
    LET d1 == initialize_db(d)
        expenses == SelectSeq(Select(d1), LAMBDA e : fromisoformat(e.date) >= 0)
        kept == IF period = "all" THEN expenses
                ELSE Window(expenses, Cutoff(period, today))
    IN  [db |-> d1, ret |-> Return(Summary(period, kept, pysum))]

generate_report(d, period, today, pysum) ==
    LET d1 == initialize_db(d)
        expenses == Select(d1)
    IN  IF period = "all"
        THEN [db |-> d1,
              ret |-> IF Parses(expenses)
                      THEN Return(Summary(period, expenses, pysum))
                      ELSE Raise("ValueError")]
        ELSE IF period \notin {"daily", "weekly", "monthly"}
        THEN [db |-> d1, ret |-> Raise("KeyError")]
        ELSE IF ~Parses(expenses)
        THEN [db |-> d1, ret |-> Raise("ValueError")]
        ELSE [db |-> d1,
              ret |-> Return(Summary(period,
                                     Window(expenses, Cutoff(period, today)),
                                     pysum))]

FileName(period) == <<"expenses_", period, ".png">>

\* Faulty variant: the chart is written even when there is nothing to plot.
plot_expenses_unguarded(d, period, today) ==
    LET r == generate_report(d, period, today, "plain")
    IN  IF r.ret.exc # ""
        THEN [db |-> r.db, ret |-> r.ret, io |-> NoIo]
        ELSE [db |-> r.db, ret |-> Return(None),
              io |-> [stdout |-> << <<"Saved plot to", FileName(period)>> >>,
                      written |-> <<FileName(period)>>]]

\* Only by_category of the report is used, which sum() does not compute.
plot_expenses(d, period, today) ==
    LET r == generate_report(d, period, today, "plain")
    IN  IF r.ret.exc # ""
        THEN [db |-> r.db, ret |-> r.ret, io |-> NoIo]
        ELSE IF DOMAIN r.ret.val.by_category = {}
        THEN [db |-> r.db, ret |-> Return(None),
              io |-> [stdout |-> <<"No data to plot.">>, written |-> <<>>]]
        ELSE [db |-> r.db, ret |-> Return(None),
              io |-> [stdout |-> << <<"Saved plot to", FileName(period)>> >>,
                      written |-> <<FileName(period)>>]]

----------------------------------------------------------------------------
(* Command surface                                                         *)

\* float(text) for a text of decimal digits: the value, or -1 when rejected.
RECURSIVE DecimalValue(_)
DecimalValue(t) ==
    IF t = <<>> THEN 0
    ELSE 10 * DecimalValue(SubSeq(t, 1, Len(t) - 1)) + DigitVal(t[Len(t)])

ParseFloat(t) ==
    IF t # <<>> /\ \A i \in 1..Len(t) : DigitVal(t[i]) >= 0
    THEN Rounded[DecimalValue(t)]
    ELSE -1

RECURSIVE DecimalText(_)
DecimalText(n) ==
    IF n < 10 THEN <<DigitChar(n)>>
    ELSE Append(DecimalText(n \div 10), DigitChar(n % 10))

\* An option is <<>> when the flag is absent, <<value>> when it is given.
Opt(S) == {<<>>} \cup {<<x>> : x \in S}

\* A text float() rejects.
NotANumber == <<"x">>

\* The add commands: those of AddArgs, and some that leave out --amount or
\* --category or give an --amount that is no number.
Argvs ==
    {[cmd |-> "add", amount |-> <<DecimalText(x[1])>>, category |-> <<x[2]>>,
      date |-> IF x[3] = None THEN <<>> ELSE <<x[3]>>, period |-> <<>>] :
        x \in AddArgs}
    \cup {a \in [cmd : {"add"}, amount : Opt({NotANumber, DecimalText(1)}),
                 category : Opt({"a"}), date : Opt({Malformed}),
                 period : {<<>>}] :
             a.amount \in {<<>>, <<NotANumber>>} \/ a.category = <<>>}
    \cup [cmd : {"report", "plot"}, amount : {<<>>}, category : {<<>>},
          date : {<<>>}, period : Opt(Periods \cup {"yearly"})]
    \cup [cmd : {""}, amount : {<<>>}, category : {<<>>}, date : {<<>>},
          period : {<<>>}]

\* parser.parse_args(): TRUE when argparse exits with a usage error.
UsageError(argv) ==
    CASE argv.cmd = "add" ->
            \/ argv.amount = <<>>
            \/ ParseFloat(argv.amount[1]) < 0
            \/ argv.category = <<>>
      [] argv.cmd \in {"report", "plot"} ->
            argv.period # <<>> /\ argv.period[1] \notin Periods
      [] OTHER -> FALSE

PeriodArg(argv) == IF argv.period = <<>> THEN "monthly" ELSE argv.period[1]

main(d, argv, today, pysum) ==
    IF UsageError(argv)
    THEN [db |-> d, ret |-> Raise("SystemExit"), io |-> NoIo]
    ELSE CASE argv.cmd = "add" ->
                LET r == add_expense(d, ParseFloat(argv.amount[1]),
                                     argv.category[1],
                                     IF argv.date = <<>> THEN None
                                     ELSE argv.date[1],
                                     today)
                IN  [db |-> r.db, ret |-> Return(None),
                     io |-> [stdout |-> << <<"Added:", r.ret.val>> >>,
                             written |-> <<>>]]
           [] argv.cmd = "report" ->
                LET r == generate_report(d, PeriodArg(argv), today, pysum)
                IN  IF r.ret.exc # ""
                    THEN [db |-> r.db, ret |-> r.ret, io |-> NoIo]
                    ELSE [db |-> r.db, ret |-> Return(None),
                          io |-> [stdout |-> <<r.ret.val>>, written |-> <<>>]]
           [] argv.cmd = "plot" ->
                plot_expenses(d, PeriodArg(argv), today)
           [] OTHER ->
                [db |-> d, ret |-> Return(None),
                 io |-> [stdout |-> <<"usage">>, written |-> <<>>]]

----------------------------------------------------------------------------
(* Operations                                                              *)

Idle == [name |-> "idle"]

Init ==
    /\ db = EmptyDb
    /\ before = EmptyDb
    /\ op = Idle
    /\ ret = Return(None)
    /\ io = NoIo

\* The caller has taken the result of the last call (the process of the last
\* command has exited): the next one can start.
Finish ==
    /\ op # Idle
    /\ op' = Idle
    /\ before' = db
    /\ ret' = Return(None)
    /\ io' = NoIo
    /\ UNCHANGED db

InitializeDb ==
    /\ op = Idle
    /\ db' = initialize_db(db)
    /\ before' = db
    /\ op' = [name |-> "initialize_db"]
    /\ ret' = Return(None)
    /\ io' = NoIo

\* The clock readings an operation can make: 0 stands for none made.
Clock(read) == IF read THEN Todays ELSE {0}

AddExpense ==
    /\ op = Idle
    /\ Len(db.rows) < MaxRows
    /\ \E a \in AddArgs :
       \E today \in Clock(a[3] = None) :
          LET amount == a[1]
              category == a[2]
              on_date == a[3]
              r == add_expense(db, amount, category, on_date, today)
          IN  /\ db' = r.db
              /\ ret' = r.ret
              /\ op' = [name |-> "add_expense", amount |-> amount,
                        category |-> category, on_date |-> on_date,
                        today |-> today]
    /\ before' = db
    /\ io' = NoIo

GetAllExpenses ==
    /\ op = Idle
    /\ LET r == get_all_expenses(db)
       IN  db' = r.db /\ ret' = r.ret
    /\ before' = db
    /\ op' = [name |-> "get_all_expenses"]
    /\ io' = NoIo

GetTotalByCategory ==
    /\ op = Idle
    /\ \E sqlsum \in SqlSums :
          LET r == get_total_by_category(db, sqlsum)
          IN  /\ db' = r.db
              /\ ret' = r.ret
              /\ op' = [name |-> "get_total_by_category"]
    /\ before' = db
    /\ io' = NoIo

GenerateReport ==
    /\ op = Idle
    /\ \E period \in Periods, pysum \in PySums :
       \E today \in Clock(period # "all") :
          LET r == generate_report(db, period, today, pysum)
          IN  /\ db' = r.db
              /\ ret' = r.ret
              /\ op' = [name |-> "generate_report", period |-> period,
                        today |-> today]
    /\ before' = db
    /\ io' = NoIo

PlotExpenses ==
    /\ op = Idle
    /\ \E period \in Periods :
       \E today \in Clock(period # "all") :
          LET r == plot_expenses(db, period, today)
          IN  /\ db' = r.db
              /\ ret' = r.ret
              /\ io' = r.io
              /\ op' = [name |-> "plot_expenses", period |-> period,
                        today |-> today]
    /\ before' = db

ReadsClock(argv) ==
    /\ ~UsageError(argv)
    /\ \/ argv.cmd = "add" /\ argv.date = <<>>
       \/ argv.cmd \in {"report", "plot"} /\ PeriodArg(argv) # "all"

Main ==
    /\ op = Idle
    /\ \E argv \in Argvs :
       \E today \in Clock(ReadsClock(argv)),
          pysum \in (IF argv.cmd = "report" THEN PySums ELSE {"plain"}) :
          /\ argv.cmd = "add" => Len(db.rows) < MaxRows
          /\ LET r == main(db, argv, today, pysum)
             IN  /\ db' = r.db
                 /\ ret' = r.ret
                 /\ io' = r.io
                 /\ op' = [name |-> "main", argv |-> argv, today |-> today]
    /\ before' = db

\* The library functions, called directly.
NextLib ==
    \/ Finish
    \/ InitializeDb
    \/ AddExpense
    \/ GetAllExpenses
    \/ GetTotalByCategory
    \/ GenerateReport
    \/ PlotExpenses

\* Storage: inserts, scans and the GROUP BY aggregation.
NextStore ==
    \/ Finish
    \/ InitializeDb
    \/ AddExpense
    \/ GetAllExpenses
    \/ GetTotalByCategory

\* The report.
NextReport ==
    \/ Finish
    \/ AddExpense
    \/ GenerateReport

\* The two aggregation paths side by side.
NextAgree ==
    \/ Finish
    \/ AddExpense
    \/ GetTotalByCategory
    \/ GenerateReport

\* The chart.
NextPlot ==
    \/ Finish
    \/ AddExpense
    \/ PlotExpenses

\* The command surface alone.
NextCli == Main \/ Finish

Next == NextLib \/ NextCli

Spec == Init /\ [][Next]_vars
SpecLib == Init /\ [][NextLib]_vars
SpecStore == Init /\ [][NextStore]_vars
SpecReport == Init /\ [][NextReport]_vars
SpecAgree == Init /\ [][NextAgree]_vars
SpecPlot == Init /\ [][NextPlot]_vars
SpecCli == Init /\ [][NextCli]_vars

----------------------------------------------------------------------------
(* Properties                                                              *)

\* The elements of s at the indices I, in increasing order of index.
RECURSIVE SeqOfIdx(_, _)
SeqOfIdx(s, I) ==
    IF I = {} THEN <<>>
    ELSE Append(SeqOfIdx(s, I \ {MaxOf(I)}), s[MaxOf(I)])

\* The results a floating-point summation of s in stored order can give.
FloatSums(s) == {NaiveSum(s), CompensatedSum(s)}

RECURSIVE ExactSum(_)
ExactSum(s) == IF s = <<>> THEN 0 ELSE ExactSum(Tail(s)) + Head(s)

\* Adding the numbers of s involves no rounding, in whatever order and
\* grouping they are added.
ExactlySummable(s) ==
    \A I \in SUBSET (1..Len(s)) :
        LET x == ExactSum(SeqOfIdx(s, I)) IN Rounded[x] = x

StoredEntry(r) == [amount |-> r.amount, category |-> r.category, date |-> r.date]

\* The indices of the stored rows a period keeps, stated with the days of
\* the window: 0, 7 and 30 days back from today, today included.
DaysBack(period) ==
    CASE period = "daily" -> 0 [] period = "weekly" -> 7 [] period = "monthly" -> 30

Kept(rows, period, today) ==
    {i \in 1..Len(rows) :
        period = "all" \/ fromisoformat(rows[i].date) >= today - DaysBack(period)}

KeptEntries(rows, period, today) ==
    SeqOfIdx([i \in 1..Len(rows) |-> StoredEntry(rows[i])], Kept(rows, period, today))

KeptAmounts(rows, I) == SeqOfIdx([i \in 1..Len(rows) |-> rows[i].amount], I)

Reported == op.name = "generate_report" /\ ret.exc = ""

\* C1: add_expense returns exactly the amount, category and date it was
\* given (today's date when the date is left out), and a get_all_expenses
\* that follows returns one record more than before the insert: a record
\* with these three fields, and every record it returned before.
C1_RoundTrip ==
    op.name = "add_expense" =>
        LET date == IF op.on_date = None THEN FormatDate(op.today) ELSE op.on_date
            e == [amount |-> op.amount, category |-> op.category, date |-> date]
            was == get_all_expenses(before).ret.val
            now == get_all_expenses(db).ret.val
        IN  /\ ret = [exc |-> "", val |-> e]
            /\ Len(now) = Len(was) + 1
            /\ \E j \in 1..Len(now) :
                  /\ now[j] = e
                  /\ was = [i \in 1..Len(was) |-> IF i < j THEN now[i] ELSE now[i + 1]]

C1_Witness ==
    /\ op.name = "add_expense"
    /\ op.on_date # None
    /\ Len(before.rows) >= 2
    /\ Len(db.rows) = Len(before.rows) + 1

\* C2: get_total_by_category returns a mapping whose keys are exactly the
\* categories of the stored records and whose value for a category is the
\* floating-point sum of the amounts of the stored records of that category.
C2_TotalsByCategory ==
    op.name = "get_total_by_category" =>
        /\ ret.exc = ""
        /\ DOMAIN ret.val = {db.rows[i].category : i \in 1..Len(db.rows)}
        /\ \A c \in DOMAIN ret.val :
              ret.val[c] \in FloatSums(KeptAmounts(db.rows,
                  {i \in 1..Len(db.rows) : db.rows[i].category = c}))

C2_Witness ==
    /\ op.name = "get_total_by_category"
    /\ DOMAIN ret.val = {"a"}
    /\ Len(db.rows) >= 2
    /\ ret.val["a"] > db.rows[1].amount

\* C3: for "all" the report summarises every stored record; for "daily",
\* "weekly" and "monthly" it summarises exactly the stored records dated on
\* or after today, today - 7 days and today - 30 days: a record on the cutoff
\* is kept, a record before it is dropped, a record after today is kept.
C3_WindowPolicy ==
    Reported =>
        LET es == KeptEntries(db.rows, op.period, op.today)
        IN  /\ op.period # "all" =>
                  Window(Select(db), Cutoff(op.period, op.today)) = es
            /\ op.period = "all" => es = Select(db)
            /\ ret.val \in {Summary(op.period, es, how) : how \in PySums}

C3_Witness ==
    /\ Reported
    /\ op.period = "weekly"
    /\ \E i \in 1..Len(db.rows) : fromisoformat(db.rows[i].date) = op.today - 7
    /\ \E i \in 1..Len(db.rows) : fromisoformat(db.rows[i].date) < op.today - 7
    /\ \E i \in 1..Len(db.rows) : fromisoformat(db.rows[i].date) > op.today
    /\ Cardinality(Kept(db.rows, op.period, op.today)) = 2

\* C4: the summary echoes the period; its total is the floating-point sum of
\* the amounts of the filtered set; by_category maps exactly the categories
\* of the filtered set to the sums of their amounts; first_date and last_date
\* are the earliest and latest date of the filtered set as ISO texts; for an
\* empty filtered set the summary is 0, {}, null, null.
C4_SummaryFold ==
    Reported =>
        LET I == Kept(db.rows, op.period, op.today)
            days == {fromisoformat(db.rows[i].date) : i \in I}
            v == ret.val
        IN  /\ v.period = op.period
            /\ v.total \in FloatSums(KeptAmounts(db.rows, I))
            /\ DOMAIN v.by_category = {db.rows[i].category : i \in I}
            /\ \A c \in DOMAIN v.by_category :
                  v.by_category[c] \in FloatSums(KeptAmounts(db.rows,
                      {i \in I : db.rows[i].category = c}))
            /\ I = {} =>
                  /\ v.total = 0
                  /\ DOMAIN v.by_category = {}
                  /\ v.first_date = None
                  /\ v.last_date = None
            /\ I # {} =>
                  /\ fromisoformat(v.first_date) \in days
                  /\ fromisoformat(v.last_date) \in days
                  /\ \A d \in days :
                        fromisoformat(v.first_date) <= d /\ d <= fromisoformat(v.last_date)

C4_Witness ==
    /\ Reported
    /\ op.period = "monthly"
    /\ Cardinality(DOMAIN ret.val.by_category) = 2
    /\ ret.val.first_date # ret.val.last_date
    /\ Cardinality(Kept(db.rows, op.period, op.today)) < Len(db.rows)

TableCount(d) ==
    Cardinality({i \in 1..Len(d.sqlite_master) : d.sqlite_master[i] = "expenses"})

IsPrefix(s, t) == Len(s) <= Len(t) /\ SubSeq(t, 1, Len(s)) = s

\* C5: calling initialize_db a second time changes nothing the first call
\* left: there is exactly one expenses table and the stored records are the
\* ones that were there; the same holds of the call every operation starts
\* with.
C5_InitIdempotent ==
    /\ \A d \in {db, before} :
          LET once == initialize_db(d)
          IN  /\ initialize_db(once) = once
              /\ TableCount(once) = 1
              /\ once.rows = d.rows
              /\ once.seq = d.seq
    /\ op # Idle =>
          /\ TableCount(db) = 1
          /\ IsPrefix(before.rows, db.rows)
    /\ op.name = "initialize_db" => db = initialize_db(before)

C5_Witness ==
    /\ op.name = "initialize_db"
    /\ TableCount(before) = 1
    /\ Len(before.rows) >= 2
    /\ db = before

\* C7: identifiers grow strictly with every insert and none is used twice;
\* an insert leaves the records that were there as they were; no other
\* operation changes the stored records.
C7_AppendOnly ==
    /\ \A i, j \in 1..Len(db.rows) : i < j => db.rows[i].id < db.rows[j].id
    /\ \A i \in 1..Len(db.rows) : db.rows[i].id <= db.seq
    /\ before.seq <= db.seq
    /\ IsPrefix(before.rows, db.rows)
    /\ op.name = "add_expense" =>
          /\ Len(db.rows) = Len(before.rows) + 1
          /\ db.rows[Len(db.rows)].id > before.seq
          /\ \A i \in 1..Len(before.rows) :
                db.rows[Len(db.rows)].id > before.rows[i].id
    /\ op.name \in {"idle", "initialize_db", "get_all_expenses",
                    "get_total_by_category", "generate_report", "plot_expenses"} =>
          db.rows = before.rows /\ db.seq = before.seq

C7_Witness ==
    /\ op.name = "add_expense"
    /\ Len(before.rows) >= 2
    /\ db.rows[Len(db.rows)].id > before.rows[Len(before.rows)].id

\* The error the specification calls DataIntegrityError is the ValueError
\* that date.fromisoformat raises.
DataIntegrityError == "ValueError"

\* C8: generate_report with one of the four periods fails exactly when some
\* stored date does not parse; the failure is the DataIntegrityError and
\* leaves the stored records as they were; otherwise a summary is returned.
C8_ReportFailure ==
    op.name = "generate_report" =>
        /\ op.period \in {"daily", "weekly", "monthly", "all"}
        /\ (ret.exc # "") <=> (\E i \in 1..Len(db.rows) : fromisoformat(db.rows[i].date) < 0)
        /\ ret.exc # "" => ret.exc = DataIntegrityError /\ db.rows = before.rows
        /\ ret.exc = "" => ret.val.period = op.period

C8_Witness ==
    /\ op.name = "generate_report"
    /\ ret.exc = DataIntegrityError
    /\ Len(db.rows) >= 2
    /\ \E i \in 1..Len(db.rows) : fromisoformat(db.rows[i].date) >= 0
    /\ db.rows = before.rows

\* C9: when no stored record falls in the period, plot_expenses writes no
\* file, prints the no-data message and returns; otherwise it writes exactly
\* one file, expenses_<period>.png, and prints that name.
C9_Plot ==
    (op.name = "plot_expenses" /\ ret.exc = "") =>
        IF Kept(db.rows, op.period, op.today) = {}
        THEN /\ io.written = <<>>
             /\ io.stdout = <<"No data to plot.">>
             /\ ret.val = None
        ELSE /\ io.written = << <<"expenses_", op.period, ".png">> >>
             /\ io.stdout = << <<"Saved plot to", io.written[1]>> >>
             /\ ret.val = None

C9_Witness ==
    /\ op.name = "plot_expenses"
    /\ ret.exc = ""
    /\ Len(db.rows) >= 2
    /\ io.written = <<>>
    /\ io.stdout = <<"No data to plot.">>

\* The orders in which the values of a mapping can be added.
Orders(S) ==
    {f \in [1..Cardinality(S) -> S] : \A i, j \in DOMAIN f : i # j => f[i] # f[j]}

\* Every number that adding the values of m can give: exactly, or in
\* floating point in any order.
ValueSums(m) ==
    UNION {FloatSums([i \in DOMAIN f |-> m[f[i]]]) \cup {ExactSum([i \in DOMAIN f |-> m[f[i]]])} :
           f \in Orders(DOMAIN m)}

\* C10 as stated: by_category of the "all" report equals
\* get_total_by_category(), and the total of every report equals the sum of
\* the values of its by_category.
C10_PathsAgree ==
    /\ (op.name = "get_total_by_category" /\ Parses(Select(db))) =>
          \A how \in PySums, today \in Clock(FALSE) :
              generate_report(db, "all", today, how).ret.val.by_category = ret.val
    /\ Reported => ret.val.total \in ValueSums(ret.val.by_category)

\* C10 amended: the two mappings have the same keys, and agree on a category
\* whose amounts add without rounding; the total of a report equals the sum
\* of the values of its by_category when the amounts of the filtered set add
\* without rounding.
C10_PathsAgreeWhenExact ==
    /\ (op.name = "get_total_by_category" /\ Parses(Select(db))) =>
          \A how \in PySums, today \in Clock(FALSE) :
              LET r == generate_report(db, "all", today, how).ret.val.by_category
              IN  /\ DOMAIN r = DOMAIN ret.val
                  /\ \A c \in DOMAIN r :
                        ExactlySummable(KeptAmounts(db.rows,
                            {i \in 1..Len(db.rows) : db.rows[i].category = c}))
                        => r[c] = ret.val[c]
    /\ Reported =>
          LET I == Kept(db.rows, op.period, op.today)
              m == ret.val.by_category
          IN  ExactlySummable(KeptAmounts(db.rows, I)) =>
                  /\ ValueSums(m) = {ret.val.total}
                  /\ ret.val.total = ExactSum(KeptAmounts(db.rows, I))

C10_Witness ==
    /\ Reported
    /\ op.period = "weekly"
    /\ Cardinality(DOMAIN ret.val.by_category) = 2
    /\ Cardinality(Kept(db.rows, op.period, op.today)) >= 3
    /\ ExactlySummable(KeptAmounts(db.rows, Kept(db.rows, op.period, op.today)))
    /\ ret.val.total = ret.val.by_category["a"] + ret.val.by_category["b"]

\* C6 as stated: every stored record has its fields and a date that parses,
\* and an add command with a malformed --date is rejected with the table
\* left as it was.
C6_StoredDatesParse ==
    /\ \A i \in 1..Len(db.rows) :
          /\ db.rows[i].id >= 1
          /\ db.rows[i].category \in Categories
          /\ fromisoformat(db.rows[i].date) >= 0
    /\ ( /\ op.name = "main"
         /\ op.argv.cmd = "add"
         /\ op.argv.date # <<>>
         /\ fromisoformat(op.argv.date[1]) < 0 ) =>
          ret.exc = "SystemExit" /\ db = before

====
